---- MODULE Spec2Model ----
(***************************************************************************)
(* Model of the school portal back end (karimsilverstone/dentomotion):     *)
(* the whiteboard WebSocket relay (apps/whiteboard/consumers.py), the      *)
(* whiteboard session REST API (apps/whiteboard/views.py), the class       *)
(* roster API (apps/classes) and the homework submit endpoint              *)
(* (apps/homework/views.py).                                               *)
(*                                                                         *)
(* The database tables are sets of rows / functions from primary keys to   *)
(* rows.  One action models one request handler, consumer handler or       *)
(* periodic task, run to completion.                                       *)
(***************************************************************************)
EXTENDS Integers, Sequences, FiniteSets, TLC

VARIABLES
    classes,      \* Class table: class id -> centre id
    assignments,  \* TeacherAssignment table: set of <<teacher, class id>>
    enrolments,   \* Enrolment table: set of [student, class_instance, is_active]
    sessions,     \* WhiteboardSession table: session id -> row
    nextSession,  \* next auto-increment primary key of WhiteboardSession
    submissions,  \* Submission table: set of rows
    now,          \* timezone.now(), in days
    resp,         \* status code of the last HTTP response (0: no request yet)
    conn,         \* WebSocket connections (consumer instances): scope and state
    groups,       \* channel layer groups: room name -> set of member channels
    chan,         \* channel layer: per channel, the events sent to it, not yet handled
    out,          \* per connection, the frame the consumer last wrote to the socket
    nrecv,        \* number of client frames received so far
    accounts,     \* User table, login fields: user -> [failed_login_attempts,
                  \*   account_locked_until, last_login, tokens (refresh tokens issued)]
    staff,        \* User.role, User.centre and the CentreManagerAssignment table,
                  \*   as the centre update changes them
    reqs          \* submit requests being served: request -> position and locals

dbVars == <<classes, assignments, enrolments, sessions, nextSession, submissions>>
wsVars == <<conn, groups, chan, out, nrecv>>
extVars == <<accounts, staff, reqs>>
vars == <<classes, assignments, enrolments, sessions, nextSession, submissions,
          now, resp, conn, groups, chan, out, nrecv, accounts, staff, reqs>>

----------------------------------------------------------------------------
(* Bounds of the model *)

MaxConns == 2      \* WebSocket connections (consumer instances)
MaxFrames == 1     \* client frames received in one behaviour
MaxClasses == 4    \* Class rows
MaxSessions == 2   \* WhiteboardSession rows ever created
MaxTime == 1       \* days that pass
MaxAccessConns == 1  \* WebSocket connections opened in one behaviour of SpecAccess
MaxLoginTime == 3  \* quarter hours that pass in SpecLogin
MaxTokens == 1     \* refresh tokens issued to one user

----------------------------------------------------------------------------
(* Users (apps/users/models.py).  The User table is fixed: these claims do  *)
(* not create users or change their role or centre.                         *)

NoCentre == 0      \* centre IS NULL
Centres == {1, 2}

Users == {"a1", "m1", "t1", "t2", "s1", "s2", "p1"}
Anon == "anon"     \* AnonymousUser of a WebSocket scope without a valid token

role ==
    [u \in Users |->
        CASE u = "a1" -> "SUPER_ADMIN"
          [] u = "m1" -> "CENTRE_MANAGER"
          [] u \in {"t1", "t2"} -> "TEACHER"
          [] u \in {"s1", "s2"} -> "STUDENT"
          [] OTHER -> "PARENT"]

centre ==
    [u \in Users |->
        CASE u = "a1" -> NoCentre
          [] u \in {"t2", "s2"} -> 2
          [] OTHER -> 1]

first_name ==
    [u \in Users |->
        CASE u = "a1" -> "Ada"
          [] u = "m1" -> "Max"
          [] u = "t1" -> "Tess"
          [] u = "t2" -> "Theo"
          [] u = "s1" -> "Sam"
          [] u = "s2" -> "Sue"
          [] OTHER -> "Pat"]

last_name == [u \in Users |-> "Doe"]

\* User.get_full_name: f"{first_name} {last_name}".strip(); the names of the
\* fixed users have no leading or trailing blanks, so strip() removes nothing.
get_full_name(u) == first_name[u] \o " " \o last_name[u]

is_authenticated(u) == u \in Users

----------------------------------------------------------------------------
(* Database queries shared by the handlers *)

NULL == -1         \* a DateTimeField that IS NULL

ClassIds == 1..MaxClasses
SessionIds == 1..MaxSessions

\* TeacherAssignment.objects.filter(teacher=u, class_instance=c).exists()
IsAssigned(u, c) == <<u, c>> \in assignments

\* Mutant of HasActiveEnrolment: the is_active filter is left out
HasActiveEnrolment_AnyRow(u, c) ==
    \E e \in enrolments : e.student = u /\ e.class_instance = c

\* Enrolment.objects.filter(student=u, class_instance=c, is_active=True).exists()
HasActiveEnrolment(u, c) ==
    [student |-> u, class_instance |-> c, is_active |-> TRUE] \in enrolments

\* Enrolment.objects.filter(student=u, class_instance=c).exists()
HasEnrolment(u, c) ==
    \E e \in enrolments : e.student = u /\ e.class_instance = c

\* teacher.teaching_assignments.count()
AssignmentCount(u) == Cardinality({a \in assignments : a[1] = u})

----------------------------------------------------------------------------
(* WebSocket relay: apps/whiteboard/consumers.py *)

Conns == 1..MaxConns

\* The session_id of the URL, ws/whiteboard/(?P<session_id>\d+)/ : a string of
\* decimal digits, kept as the client wrote it.
UrlIds == {<<1>>, <<0, 1>>, <<2>>, <<3>>}

\* int(session_id), as the ORM converts the lookup value of get(id=session_id)
RECURSIVE ParseInt(_)
ParseInt(digits) ==
    IF digits = <<>> THEN 0
    ELSE 10 * ParseInt(SubSeq(digits, 1, Len(digits) - 1)) + digits[Len(digits)]

\* Mutant of room_group_name: one room for all sessions
room_group_name_Shared(url) == <<"whiteboard", << >> >>

\* self.room_group_name = f'whiteboard_{self.session_id}': the text of the URL
room_group_name(url) == <<"whiteboard", url>>

RoomNames == {room_group_name(url) : url \in UrlIds}

\* WhiteboardConsumer.get_session: the row, or None (DoesNotExist)
SessionFound(url) == ParseInt(url) \in DOMAIN sessions
get_session(url) == sessions[ParseInt(url)]

\* Mutant of verify_access: a teacher needs no assignment to the class
verify_access_AnyTeacher(u, session) ==
    IF role[u] = "TEACHER" THEN TRUE
    ELSE IF role[u] = "STUDENT" THEN HasActiveEnrolment(u, session.class_instance)
    ELSE IF role[u] \in {"CENTRE_MANAGER", "SUPER_ADMIN"} THEN TRUE
    ELSE FALSE

\* WhiteboardConsumer.verify_access
verify_access(u, session) ==
    IF role[u] = "TEACHER" THEN IsAssigned(u, session.class_instance)
    ELSE IF role[u] = "STUDENT" THEN HasActiveEnrolment(u, session.class_instance)
    ELSE IF role[u] \in {"CENTRE_MANAGER", "SUPER_ADMIN"} THEN TRUE
    ELSE FALSE

\* channel_layer.group_send: the event is put on the channel of every member
\* of the group at the time of the call
group_send(ch, members, event) ==
    [d \in Conns |-> IF d \in members THEN Append(ch[d], event) ELSE ch[d]]

JsonNull == "<null>"   \* JSON null / Python None as a value of a JSON object

\* A connection that was never opened
IdleConn == [state |-> "idle", user |-> Anon, url |-> <<>>, code |-> 0]

\* connect(): connections are numbered in the order they are opened
Connect(c, u, url) ==
    /\ conn[c].state = "idle"
    /\ \A b \in Conns : b < c => conn[b].state # "idle"
    /\ IF ~is_authenticated(u) THEN
           /\ conn' = [conn EXCEPT ![c] =
                  [state |-> "rejected", user |-> u, url |-> url, code |-> 1008]]
           /\ UNCHANGED <<groups, chan>>
       ELSE IF ~SessionFound(url) THEN
           /\ conn' = [conn EXCEPT ![c] =
                  [state |-> "rejected", user |-> u, url |-> url, code |-> 3000]]
           /\ UNCHANGED <<groups, chan>>
       ELSE IF ~get_session(url).is_active THEN
           /\ conn' = [conn EXCEPT ![c] =
                  [state |-> "rejected", user |-> u, url |-> url, code |-> 3001]]
           /\ UNCHANGED <<groups, chan>>
       ELSE IF ~verify_access(u, get_session(url)) THEN
           /\ conn' = [conn EXCEPT ![c] =
                  [state |-> "rejected", user |-> u, url |-> url, code |-> 3002]]
           /\ UNCHANGED <<groups, chan>>
       ELSE
           /\ groups' = [groups EXCEPT ![room_group_name(url)] = @ \cup {c}]
           /\ conn' = [conn EXCEPT ![c] =
                  [state |-> "open", user |-> u, url |-> url, code |-> 0]]
           /\ chan' = group_send(chan, groups'[room_group_name(url)],
                  [type |-> "user_joined", src |-> c,
                   message |-> [k \in {"user_id", "user_name", "user_role"} |->
                       CASE k = "user_id" -> u
                         [] k = "user_name" -> get_full_name(u)
                         [] OTHER -> role[u]]])
    /\ UNCHANGED <<extVars, out, nrecv, dbVars, now, resp>>

\* A text frame from the client: JSON text.  object says whether the text is
\* a JSON object; pairs are its members in the order written (a key may be
\* written twice).
Frames ==
    { [object |-> TRUE,  pairs |-> << <<"type", "draw">>, <<"x", "1">>, <<"x", "2">> >>],
      [object |-> TRUE,  pairs |-> << <<"type", "draw">>, <<"user_id", "t1">>,
                                      <<"user_name", "Tess Doe">>,
                                      <<"timestamp", "t0">> >>],
      [object |-> FALSE, pairs |-> << >>] }

\* json.loads of a JSON object: a dict; the last member written for a key wins
json_loads(frame) ==
    LET n == Len(frame.pairs)
        keys == {frame.pairs[i][1] : i \in 1..n}
        last(k) == CHOOSE i \in 1..n :
                       /\ frame.pairs[i][1] = k
                       /\ \A j \in 1..n : frame.pairs[j][1] = k => j <= i
    IN  [k \in keys |-> frame.pairs[last(k)][2]]

\* Mutant of StampUser: identity the client wrote is kept (dict.setdefault)
StampUser_KeepClient(data, u) ==
    [k \in DOMAIN data \cup {"user_id", "user_name", "timestamp"} |->
        IF k \in DOMAIN data THEN data[k]
        ELSE CASE k = "user_id" -> u
               [] k = "user_name" -> get_full_name(u)
               [] OTHER -> JsonNull]

\* Mutant of StampUser: only the known keys of a drawing event are relayed
StampUser_KnownKeys(data, u) ==
    [k \in {"type", "user_id", "user_name", "timestamp"} |->
        CASE k = "user_id" -> u
          [] k = "user_name" -> get_full_name(u)
          [] OTHER -> IF k \in DOMAIN data THEN data[k] ELSE JsonNull]

\* receive(), lines 108-111: data['user_id'], data['user_name'] and
\* data['timestamp'] = data.get('timestamp') are set on the parsed dict
StampUser(data, u) ==
    [k \in DOMAIN data \cup {"user_id", "user_name", "timestamp"} |->
        CASE k = "user_id" -> u
          [] k = "user_name" -> get_full_name(u)
          [] k = "timestamp" ->
                 IF "timestamp" \in DOMAIN data THEN data["timestamp"] ELSE JsonNull
          [] OTHER -> data[k]]

\* receive(text_data).  A frame that is not a JSON object makes data.get raise:
\* the consumer dies without running disconnect(), its channel stays in the group.
ReceiveUpTo(c, frame, max) ==
    /\ conn[c].state = "open"
    /\ nrecv < max
    /\ nrecv' = nrecv + 1
    /\ IF ~frame.object THEN
           /\ conn' = [conn EXCEPT ![c].state = "crashed"]
           /\ UNCHANGED chan
       ELSE
           /\ chan' = group_send(chan, groups[room_group_name(conn[c].url)],
                  [type |-> "whiteboard_message", src |-> c,
                   message |-> StampUser(json_loads(frame), conn[c].user)])
           /\ UNCHANGED conn
    /\ UNCHANGED <<extVars, groups, out, dbVars, now, resp>>

\* receive(text_data) while fewer than MaxFrames frames were received
Receive(c, frame) == ReceiveUpTo(c, frame, MaxFrames)

LastOf(q) == q[Len(q)]

\* The last n elements of a sequence
LastFrames(q, n) ==
    IF Len(q) <= n THEN q ELSE SubSeq(q, Len(q) - n + 1, Len(q))

\* The frame a handler writes for an event: whiteboard_message sends
\* event['message']; user_joined and user_left build a new object.
HandlerFrame(event) ==
    IF event.type = "whiteboard_message" THEN event.message
    ELSE [k \in DOMAIN event.message \cup {"type"} |->
             IF k = "type" THEN event.type ELSE event.message[k]]

\* Mutant of DeliverKeeping: the newest waiting event is handled first
DeliverKeeping_Newest(c, keep) ==
    /\ conn[c].state = "open"
    /\ chan[c] # << >>
    /\ out' = [out EXCEPT ![c] =
           LastFrames(Append(@, [via |-> LastOf(chan[c]).type, src |-> LastOf(chan[c]).src,
                                 json |-> HandlerFrame(LastOf(chan[c]))]), keep)]
    /\ chan' = [chan EXCEPT ![c] = SubSeq(@, 1, Len(@) - 1)]
    /\ UNCHANGED <<extVars, conn, groups, nrecv, dbVars, now, resp>>

\* The consumer takes the next event from its channel and runs its handler
\* (whiteboard_message, user_joined, user_left): self.send(json.dumps(...)).
\* via and src record which handler wrote the frame and for whose event.
\* out[c] keeps the last `keep` frames written to the socket of c.
DeliverKeeping(c, keep) ==
    /\ conn[c].state = "open"
    /\ chan[c] # << >>
    /\ out' = [out EXCEPT ![c] =
           LastFrames(Append(@, [via |-> Head(chan[c]).type, src |-> Head(chan[c]).src,
                                 json |-> HandlerFrame(Head(chan[c]))]), keep)]
    /\ chan' = [chan EXCEPT ![c] = Tail(@)]
    /\ UNCHANGED <<extVars, conn, groups, nrecv, dbVars, now, resp>>

\* Delivery with only the last frame written kept in out[c]
Deliver(c) == DeliverKeeping(c, 1)

\* Mutant of Disconnect: the leave notice is sent but the channel stays in the group
Disconnect_NoDiscard(c) ==
    /\ conn[c].state \in {"open", "rejected"}
    /\ conn' = [conn EXCEPT ![c].state = "closed"]
    /\ IF ~is_authenticated(conn[c].user) THEN
           /\ chan' = [chan EXCEPT ![c] = << >>]
           /\ UNCHANGED groups
       ELSE
           /\ chan' = [group_send(chan, groups[room_group_name(conn[c].url)],
                  [type |-> "user_left", src |-> c,
                   message |-> [k \in {"user_id", "user_name"} |->
                       IF k = "user_id" THEN conn[c].user
                       ELSE get_full_name(conn[c].user)]])
                  EXCEPT ![c] = << >>]
           /\ UNCHANGED groups
    /\ UNCHANGED <<extVars, out, nrecv, dbVars, now, resp>>

\* disconnect(close_code): runs when the socket closes, also after connect()
\* closed it.  AnonymousUser has no get_full_name: the handler raises before
\* group_send.  The consumer then stops: what is left on its channel (its own
\* user_left included) is never read, and is dropped here.
Disconnect(c) ==
    /\ conn[c].state \in {"open", "rejected"}
    /\ conn' = [conn EXCEPT ![c].state = "closed"]
    /\ IF ~is_authenticated(conn[c].user) THEN
           /\ chan' = [chan EXCEPT ![c] = << >>]
           /\ UNCHANGED groups
       ELSE
           /\ chan' = [group_send(chan, groups[room_group_name(conn[c].url)],
                  [type |-> "user_left", src |-> c,
                   message |-> [k \in {"user_id", "user_name"} |->
                       IF k = "user_id" THEN conn[c].user
                       ELSE get_full_name(conn[c].user)]])
                  EXCEPT ![c] = << >>]
           /\ groups' = [groups EXCEPT ![room_group_name(conn[c].url)] = @ \ {c}]
    /\ UNCHANGED <<extVars, out, nrecv, dbVars, now, resp>>

----------------------------------------------------------------------------
(* Rows *)

SessionRow(c, t, name, started, ended, active) ==
    [class_instance |-> c, teacher |-> t, session_name |-> name,
     started_at |-> started, ended_at |-> ended, is_active |-> active]

EnrolmentRow(s, c, active) ==
    [student |-> s, class_instance |-> c, is_active |-> active]

NoRequest == 0

InitWs ==
    /\ conn = [c \in Conns |-> IdleConn]
    /\ groups = [g \in RoomNames |-> {}]
    /\ chan = [c \in Conns |-> << >>]
    /\ out = [c \in Conns |-> << >>]
    /\ nrecv = 0

\* A user who never logged in: failed_login_attempts default 0,
\* account_locked_until and last_login NULL, no token issued
NewAccount ==
    [failed_login_attempts |-> 0, account_locked_until |-> NULL,
     last_login |-> NULL, tokens |-> 0]

\* User.role and User.centre as rows of the User table, and the
\* CentreManagerAssignment rows: m1 manages centre 1
InitStaff ==
    [role |-> role, centre |-> centre, manager_assignments |-> {<<"m1", 1>>}]

\* No login was attempted, no centre was updated, no submit request is open
InitExt ==
    /\ accounts = [u \in Users |-> NewAccount]
    /\ staff = InitStaff
    /\ reqs = << >>

----------------------------------------------------------------------------
(* Class roster API: apps/classes/views.py, apps/classes/serializers.py.   *)
(* Requests come from authenticated users; class names are fresh, so the   *)
(* (centre, name) uniqueness validator never rejects.                      *)

\* ClassViewSet.get_queryset without query parameters: the classes user u sees
ClassVisible(u, c) ==
    /\ c \in DOMAIN classes
    /\ CASE role[u] = "SUPER_ADMIN" -> TRUE
         [] role[u] \in {"CENTRE_MANAGER", "TEACHER"} /\ centre[u] # NoCentre ->
                /\ classes[c] = centre[u]
                /\ role[u] = "TEACHER" => IsAssigned(u, c)
         [] role[u] = "STUDENT" -> HasActiveEnrolment(u, c)
         [] OTHER -> FALSE

\* The user ids the roster requests name: a teacher, a student of centre 2 and
\* an id of no user
UserRefs == {"t1", "s2", "x9"}

\* The users who send the roster requests: the super admin, the manager of
\* centre 1 and a teacher
RosterActors == {"a1", "m1", "t1"}

\* The teacher_ids and student_ids lists of a class-creation request
TeacherIdLists == { <<"t1">>, <<"t1", "t1">>, <<"s2">>, <<"x9">> }
StudentIdLists == { <<"s2">>, <<"s2", "s2">>, <<"t1">> }

Range(q) == {q[i] : i \in 1..Len(q)}

\* The first index at which an element of the list is repeated, 0 if none:
\* where the second INSERT of the same (user, class) pair fails
FirstRepeat(q) ==
    IF \E i \in 1..Len(q) : \E j \in 1..(i - 1) : q[j] = q[i]
    THEN CHOOSE i \in 1..Len(q) :
             /\ \E j \in 1..(i - 1) : q[j] = q[i]
             /\ \A h \in 1..(i - 1) : ~(\E j \in 1..(h - 1) : q[j] = q[h])
    ELSE 0

\* The elements of the list before index n (all of them when n = 0)
Before(q, n) == IF n = 0 THEN Range(q) ELSE {q[i] : i \in 1..(n - 1)}

\* ClassCreateSerializer.validate_teacher_ids
validate_teacher_ids(ids) ==
    \A i \in 1..Len(ids) :
        /\ ids[i] \in Users
        /\ role[ids[i]] = "TEACHER"
        /\ ~(AssignmentCount(ids[i]) >= 3)

\* ClassCreateSerializer.validate_student_ids
validate_student_ids(ids) ==
    \A i \in 1..Len(ids) : ids[i] \in Users /\ role[ids[i]] = "STUDENT"

\* ClassCreateSerializer.validate: students belong to the centre of the class
validate_class(ids, ctr) ==
    \A i \in 1..Len(ids) : centre[ids[i]] = ctr

\* POST /classes/ : ClassViewSet.create (the second definition, line 205) and
\* ClassCreateSerializer.create.  The rows are inserted one by one without a
\* transaction: a repeated id fails on the unique constraint (500) after the
\* class and the rows before it were saved.
CreateClass(u, ctr, teacher_ids, student_ids) ==
    LET pk == Cardinality(DOMAIN classes) + 1
        tfail == FirstRepeat(teacher_ids)
        sfail == FirstRepeat(student_ids)
    IN
    /\ UNCHANGED <<extVars, sessions, nextSession, submissions, now, wsVars>>
    /\ IF role[u] \notin {"SUPER_ADMIN", "CENTRE_MANAGER"} THEN
           /\ resp' = 403
           /\ UNCHANGED <<classes, assignments, enrolments>>
       ELSE IF role[u] = "CENTRE_MANAGER" /\ ctr # centre[u] THEN
           /\ resp' = 403
           /\ UNCHANGED <<classes, assignments, enrolments>>
       ELSE IF ~(/\ validate_teacher_ids(teacher_ids)
                 /\ validate_student_ids(student_ids)
                 /\ validate_class(student_ids, ctr)) THEN
           /\ resp' = 400
           /\ UNCHANGED <<classes, assignments, enrolments>>
       ELSE
           /\ pk \in ClassIds
           /\ classes' = classes @@ (pk :> ctr)
           /\ assignments' = assignments \cup
                  {<<t, pk>> : t \in Before(teacher_ids, tfail)}
           /\ enrolments' = enrolments \cup
                  (IF tfail # 0 THEN {}
                   ELSE {[student |-> st, class_instance |-> pk, is_active |-> TRUE] :
                            st \in Before(student_ids, sfail)})
           /\ resp' = IF tfail # 0 \/ sfail # 0 THEN 500 ELSE 201

\* POST /classes/{pk}/teachers/ : ClassViewSet.teachers and
\* TeacherAssignmentSerializer.  body_class is the class_instance of the
\* body (0: missing or no such class); the row is saved against the class of
\* the URL.  Model.clean() is not run by save(); the serializer has no
\* unique-together validator (teacher is read-only), so a second row for the
\* same pair fails in the database (500).
AssignTeacher(u, pk, teacher_id, body_class) ==
    /\ UNCHANGED <<extVars, classes, enrolments, sessions, nextSession, submissions, now, wsVars>>
    /\ IF ~ClassVisible(u, pk) THEN
           resp' = 404 /\ UNCHANGED assignments
       ELSE IF role[u] \notin {"SUPER_ADMIN", "CENTRE_MANAGER"} THEN
           resp' = 403 /\ UNCHANGED assignments
       ELSE IF ~(/\ teacher_id \in Users
                 /\ role[teacher_id] = "TEACHER"
                 /\ body_class \in DOMAIN classes) THEN
           resp' = 400 /\ UNCHANGED assignments
       ELSE IF <<teacher_id, pk>> \in assignments THEN
           resp' = 500 /\ UNCHANGED assignments
       ELSE
           resp' = 201 /\ assignments' = assignments \cup {<<teacher_id, pk>>}

\* DELETE /classes/{pk}/teachers/{teacher_id}/ : ClassViewSet.remove_teacher
RemoveTeacher(u, pk, teacher_id) ==
    /\ UNCHANGED <<extVars, classes, enrolments, sessions, nextSession, submissions, now, wsVars>>
    /\ IF role[u] \notin {"SUPER_ADMIN", "CENTRE_MANAGER"} THEN
           resp' = 403 /\ UNCHANGED assignments
       ELSE IF ~ClassVisible(u, pk) THEN
           resp' = 404 /\ UNCHANGED assignments
       ELSE IF <<teacher_id, pk>> \in assignments THEN
           resp' = 200 /\ assignments' = assignments \ {<<teacher_id, pk>>}
       ELSE
           resp' = 404 /\ UNCHANGED assignments

\* POST /classes/{pk}/enrolments/ : ClassViewSet.enrolments and
\* EnrolmentSerializer.  validate() compares the student's centre with the
\* centre of attrs['class_instance'], the class named in the body; the row is
\* saved against the class of the URL.  The body leaves is_active to its
\* default (True).
EnrolStudent(u, pk, student_id, body_class) ==
    /\ UNCHANGED <<extVars, classes, assignments, sessions, nextSession, submissions, now, wsVars>>
    /\ IF ~ClassVisible(u, pk) THEN
           resp' = 404 /\ UNCHANGED enrolments
       ELSE IF role[u] \notin {"SUPER_ADMIN", "CENTRE_MANAGER"} THEN
           resp' = 403 /\ UNCHANGED enrolments
       ELSE IF ~(/\ student_id \in Users
                 /\ role[student_id] = "STUDENT"
                 /\ body_class \in DOMAIN classes) THEN
           resp' = 400 /\ UNCHANGED enrolments
       ELSE IF centre[student_id] # classes[body_class] THEN
           resp' = 400 /\ UNCHANGED enrolments
       ELSE IF HasEnrolment(student_id, pk) THEN
           resp' = 500 /\ UNCHANGED enrolments
       ELSE
           /\ resp' = 201
           /\ enrolments' = enrolments \cup
                  {[student |-> student_id, class_instance |-> pk, is_active |-> TRUE]}

\* DELETE /classes/{pk}/enrolments/{student_id}/ : ClassViewSet.remove_student
RemoveStudent(u, pk, student_id) ==
    /\ UNCHANGED <<extVars, classes, assignments, sessions, nextSession, submissions, now, wsVars>>
    /\ IF role[u] \notin {"SUPER_ADMIN", "CENTRE_MANAGER"} THEN
           resp' = 403 /\ UNCHANGED enrolments
       ELSE IF ~ClassVisible(u, pk) THEN
           resp' = 404 /\ UNCHANGED enrolments
       ELSE IF HasEnrolment(student_id, pk) THEN
           /\ resp' = 200
           /\ enrolments' =
                  {e \in enrolments : ~(e.student = student_id /\ e.class_instance = pk)}
                  \cup {[student |-> student_id, class_instance |-> pk, is_active |-> FALSE]}
       ELSE
           resp' = 404 /\ UNCHANGED enrolments

\* The class ids a request may name; 0 names no class
ClassRefs == ClassIds \cup {0}

----------------------------------------------------------------------------
(* Whiteboard session API: apps/whiteboard/views.py; the periodic cleanup   *)
(* task: apps/core/tasks.py                                                 *)

\* WhiteboardSessionViewSet.get_queryset: the sessions user u sees
SessionVisible(u, pk) ==
    /\ pk \in DOMAIN sessions
    /\ CASE role[u] = "SUPER_ADMIN" -> TRUE
         [] role[u] = "CENTRE_MANAGER" /\ centre[u] # NoCentre ->
                classes[sessions[pk].class_instance] = centre[u]
         [] role[u] = "TEACHER" -> IsAssigned(u, sessions[pk].class_instance)
         [] role[u] = "STUDENT" -> HasActiveEnrolment(u, sessions[pk].class_instance)
         [] OTHER -> FALSE

\* WhiteboardSession.objects.filter(class_instance=c, is_active=True).first()
HasActiveSession(c) ==
    \E i \in DOMAIN sessions : sessions[i].class_instance = c /\ sessions[i].is_active

\* POST /whiteboard/sessions/ : WhiteboardSessionViewSet.create
CreateSession(u, body_class, name) ==
    /\ UNCHANGED <<extVars, classes, assignments, enrolments, submissions, now, wsVars>>
    /\ IF role[u] # "TEACHER" THEN
           resp' = 403 /\ UNCHANGED <<sessions, nextSession>>
       ELSE IF body_class \notin DOMAIN classes THEN
           resp' = 400 /\ UNCHANGED <<sessions, nextSession>>
       ELSE IF ~IsAssigned(u, body_class) THEN
           resp' = 403 /\ UNCHANGED <<sessions, nextSession>>
       ELSE IF HasActiveSession(body_class) THEN
           resp' = 400 /\ UNCHANGED <<sessions, nextSession>>
       ELSE
           /\ nextSession \in SessionIds
           /\ sessions' = sessions @@
                  (nextSession :> SessionRow(body_class, u, name, now, NULL, TRUE))
           /\ nextSession' = nextSession + 1
           /\ resp' = 201

\* WhiteboardSession.end_session
end_session(row) == [row EXCEPT !.is_active = FALSE, !.ended_at = now]

\* Mutant of EndSession: any teacher who sees the session may end it
EndSession_AnyTeacher(u, pk) ==
    /\ IF ~SessionVisible(u, pk) THEN
           resp' = 404 /\ UNCHANGED sessions
       ELSE IF role[u] # "TEACHER" THEN
           resp' = 403 /\ UNCHANGED sessions
       ELSE IF ~sessions[pk].is_active THEN
           resp' = 400 /\ UNCHANGED sessions
       ELSE
           resp' = 200 /\ sessions' = [sessions EXCEPT ![pk] = end_session(@)]
    /\ UNCHANGED <<extVars, classes, assignments, enrolments, nextSession, submissions, now, wsVars>>

\* POST /whiteboard/sessions/{pk}/end/ : WhiteboardSessionViewSet.end_session
EndSession(u, pk) ==
    /\ IF ~SessionVisible(u, pk) THEN
           resp' = 404 /\ UNCHANGED sessions
       ELSE IF role[u] # "TEACHER" \/ sessions[pk].teacher # u THEN
           resp' = 403 /\ UNCHANGED sessions
       ELSE IF ~sessions[pk].is_active THEN
           resp' = 400 /\ UNCHANGED sessions
       ELSE
           resp' = 200 /\ sessions' = [sessions EXCEPT ![pk] = end_session(@)]
    /\ UNCHANGED <<extVars, classes, assignments, enrolments, nextSession, submissions, now, wsVars>>

\* POST /whiteboard/sessions/{pk}/join/ : WhiteboardSessionViewSet.join_session
JoinSession(u, pk) ==
    /\ IF ~SessionVisible(u, pk) THEN resp' = 404
       ELSE IF ~sessions[pk].is_active THEN resp' = 400
       ELSE IF role[u] = "TEACHER" THEN
           IF ~IsAssigned(u, sessions[pk].class_instance) THEN resp' = 403
           ELSE resp' = 200
       ELSE IF role[u] = "STUDENT" THEN
           IF ~HasActiveEnrolment(u, sessions[pk].class_instance) THEN resp' = 403
           ELSE resp' = 200
       ELSE resp' = 403
    /\ UNCHANGED <<extVars, dbVars, now, wsVars>>

\* A field a request body does not carry
Absent == "absent"

\* The body of PUT/PATCH /whiteboard/sessions/{pk}/ : the writable fields of
\* WhiteboardSessionSerializer (class_instance, session_name, is_active).
\* class_instance 0 names no class, NULL stands for a body without the field;
\* is_active is "true", "false" or Absent.
SessionBodies ==
    [class_instance : ClassRefs \cup {NULL},
     session_name : {"lesson", Absent},
     is_active : {"true", "false", Absent}]

\* serializer.is_valid: a PUT must carry class_instance and session_name
SessionBodyValid(body, partial) ==
    /\ body.class_instance # NULL => body.class_instance \in DOMAIN classes
    /\ ~partial => (body.class_instance # NULL /\ body.session_name # Absent)

\* serializer.save() of an update: the fields of the body are set on the row
apply_update(row, body) ==
    [row EXCEPT
        !.class_instance = IF body.class_instance # NULL THEN body.class_instance ELSE @,
        !.session_name = IF body.session_name # Absent THEN body.session_name ELSE @,
        !.is_active = IF body.is_active # Absent THEN body.is_active = "true" ELSE @]

\* PUT (partial = FALSE) and PATCH (partial = TRUE) /whiteboard/sessions/{pk}/ :
\* ModelViewSet.update / partial_update, not overridden by the view set
UpdateSession(u, pk, body, partial) ==
    /\ UNCHANGED <<extVars, classes, assignments, enrolments, nextSession, submissions, now, wsVars>>
    /\ IF ~SessionVisible(u, pk) THEN
           resp' = 404 /\ UNCHANGED sessions
       ELSE IF ~SessionBodyValid(body, partial) THEN
           resp' = 400 /\ UNCHANGED sessions
       ELSE
           resp' = 200 /\ sessions' = [sessions EXCEPT ![pk] = apply_update(@, body)]

\* DELETE /whiteboard/sessions/{pk}/ : ModelViewSet.destroy, not overridden
DeleteSession(u, pk) ==
    /\ UNCHANGED <<extVars, classes, assignments, enrolments, nextSession, submissions, now, wsVars>>
    /\ IF ~SessionVisible(u, pk) THEN
           resp' = 404 /\ UNCHANGED sessions
       ELSE
           /\ resp' = 204
           /\ sessions' = [i \in DOMAIN sessions \ {pk} |-> sessions[i]]

CleanupAgeDays == 1   \* timedelta(hours=24)

\* cleanup_old_sessions: ends the sessions active for more than 24 hours
CleanupOldSessions ==
    /\ sessions' = [i \in DOMAIN sessions |->
           IF sessions[i].is_active /\ sessions[i].started_at <= now - CleanupAgeDays
           THEN end_session(sessions[i]) ELSE sessions[i]]
    /\ UNCHANGED <<extVars, classes, assignments, enrolments, nextSession, submissions,
                   now, resp, wsVars>>

\* Time passes: timezone.now() grows by one unit, up to max
Advance(max) ==
    /\ now < max
    /\ now' = now + 1
    /\ UNCHANGED <<extVars, dbVars, resp, wsVars>>

\* A day passes
Tick == Advance(MaxTime)

----------------------------------------------------------------------------
(* Homework submit: apps/homework/views.py.  The Homework table is fixed:   *)
(* homework 1 is set by t1 for class 1, homework 2 by t2 for class 2.       *)

homeworks ==
    (1 :> [class_instance |-> 1, teacher |-> "t1"])
    @@ (2 :> [class_instance |-> 2, teacher |-> "t2"])

HomeworkRefs == {1, 2, 3}

\* HomeworkViewSet.get_queryset without query parameters
HomeworkVisible(u, pk) ==
    /\ pk \in DOMAIN homeworks
    /\ homeworks[pk].class_instance \in DOMAIN classes
    /\ CASE role[u] = "SUPER_ADMIN" -> TRUE
         [] role[u] = "CENTRE_MANAGER" /\ centre[u] # NoCentre ->
                classes[homeworks[pk].class_instance] = centre[u]
         [] role[u] = "TEACHER" -> IsAssigned(u, homeworks[pk].class_instance)
         [] role[u] = "STUDENT" -> HasActiveEnrolment(u, homeworks[pk].class_instance)
         [] OTHER -> FALSE

\* The uploaded file of a submit request: a valid file, one over 10 MB, an
\* explicit null, or no file field at all
Files == {"ok", "toobig", "null", Absent}

\* SubmissionCreateSerializer.is_valid: validate_file runs when the field is
\* in the body
FileValid(file) == file \in {"ok", Absent}

SubmissionRow(id, hw, st, status, file, at) ==
    [id |-> id, homework |-> hw, student |-> st, status |-> status, file |-> file,
     submitted_at |-> at, mark |-> NULL, feedback |-> "",
     graded_by |-> Anon, graded_at |-> NULL]

\* Mutant of Submit: a homework already submitted may be submitted again
Submit_Resubmit(u, pk, file) ==
    LET existing == {r \in submissions : r.homework = pk /\ r.student = u} IN
    /\ IF role[u] # "STUDENT" THEN
           resp' = 403 /\ UNCHANGED submissions
       ELSE IF ~HomeworkVisible(u, pk) THEN
           resp' = 404 /\ UNCHANGED submissions
       ELSE IF ~HasActiveEnrolment(u, homeworks[pk].class_instance) THEN
           resp' = 403 /\ UNCHANGED submissions
       ELSE IF ~FileValid(file) THEN
           resp' = 400 /\ UNCHANGED submissions
       ELSE IF existing # {} THEN
           /\ resp' = 200
           /\ submissions' = (submissions \ existing) \cup
                  {[r EXCEPT !.file = IF file = Absent THEN "null" ELSE file,
                             !.status = "SUBMITTED",
                             !.submitted_at = now] : r \in existing}
       ELSE
           resp' = 500 /\ UNCHANGED submissions
    /\ UNCHANGED <<extVars, classes, assignments, enrolments, sessions, nextSession, now, wsVars>>

\* POST /homework/{pk}/submit/ : HomeworkViewSet.submit.  Without an existing
\* row, serializer.save(student, status, submitted_at) inserts a Submission
\* with no homework: the NOT NULL column fails (500) and nothing is saved.
Submit(u, pk, file) ==
    LET existing == {r \in submissions : r.homework = pk /\ r.student = u} IN
    /\ IF role[u] # "STUDENT" THEN
           resp' = 403 /\ UNCHANGED submissions
       ELSE IF ~HomeworkVisible(u, pk) THEN
           resp' = 404 /\ UNCHANGED submissions
       ELSE IF ~HasActiveEnrolment(u, homeworks[pk].class_instance) THEN
           resp' = 403 /\ UNCHANGED submissions
       ELSE IF \E r \in existing : r.status \in {"SUBMITTED", "GRADED"} THEN
           resp' = 400 /\ UNCHANGED submissions
       ELSE IF ~FileValid(file) THEN
           resp' = 400 /\ UNCHANGED submissions
       ELSE IF existing # {} THEN
           /\ resp' = 200
           /\ submissions' = (submissions \ existing) \cup
                  {[r EXCEPT !.file = IF file = Absent THEN "null" ELSE file,
                             !.status = "SUBMITTED",
                             !.submitted_at = now] : r \in existing}
       ELSE
           resp' = 500 /\ UNCHANGED submissions
    /\ UNCHANGED <<extVars, classes, assignments, enrolments, sessions, nextSession, now, wsVars>>

\* The body of a grade request: mark (given or not; NULL is JSON null) and
\* feedback (a text or Absent)
GradeBody(given, mark, feedback) ==
    [mark_given |-> given, mark |-> mark, feedback |-> feedback]

GradeBodies ==
    { GradeBody(TRUE, 100, "good"), GradeBody(TRUE, NULL, Absent),
      GradeBody(FALSE, NULL, Absent),
      GradeBody(TRUE, 101, "good"), GradeBody(TRUE, -5, Absent) }

\* SubmissionGradeSerializer.is_valid: the validators of Submission.mark and
\* validate_mark, run when a mark that is not null is given
GradeBodyValid(body) ==
    (body.mark_given /\ body.mark # NULL) => (body.mark >= 0 /\ body.mark <= 100)

\* serializer.save(status='GRADED', graded_at=now, graded_by=user) of a
\* partial update: mark and feedback are set when the body carries them
apply_grade(row, body, u) ==
    [row EXCEPT !.mark = IF body.mark_given THEN body.mark ELSE @,
                !.feedback = IF body.feedback # Absent THEN body.feedback ELSE @,
                !.status = "GRADED",
                !.graded_at = now,
                !.graded_by = u]

\* The submission ids a grade request names
SubmissionRefs == {1, 2, 3}

\* Mutant of Grade: the body is saved without validation
Grade_AnyMark(u, pk, submission_id, body) ==
    LET found == {r \in submissions : r.id = submission_id /\ r.homework = pk} IN
    /\ IF role[u] # "TEACHER" THEN
           resp' = 403 /\ UNCHANGED submissions
       ELSE IF ~HomeworkVisible(u, pk) THEN
           resp' = 404 /\ UNCHANGED submissions
       ELSE IF ~IsAssigned(u, homeworks[pk].class_instance) THEN
           resp' = 403 /\ UNCHANGED submissions
       ELSE IF found = {} THEN
           resp' = 404 /\ UNCHANGED submissions
       ELSE
           /\ resp' = 200
           /\ submissions' = (submissions \ found) \cup
                  {apply_grade(r, body, u) : r \in found}
    /\ UNCHANGED <<extVars, classes, assignments, enrolments, sessions, nextSession, now, wsVars>>

\* POST /homework/{pk}/grade/{submission_id}/ : HomeworkViewSet.grade
Grade(u, pk, submission_id, body) ==
    LET found == {r \in submissions : r.id = submission_id /\ r.homework = pk} IN
    /\ IF role[u] # "TEACHER" THEN
           resp' = 403 /\ UNCHANGED submissions
       ELSE IF ~HomeworkVisible(u, pk) THEN
           resp' = 404 /\ UNCHANGED submissions
       ELSE IF ~IsAssigned(u, homeworks[pk].class_instance) THEN
           resp' = 403 /\ UNCHANGED submissions
       ELSE IF found = {} THEN
           resp' = 404 /\ UNCHANGED submissions
       ELSE IF ~GradeBodyValid(body) THEN
           resp' = 400 /\ UNCHANGED submissions
       ELSE
           /\ resp' = 200
           /\ submissions' = (submissions \ found) \cup
                  {apply_grade(r, body, u) : r \in found}
    /\ UNCHANGED <<extVars, classes, assignments, enrolments, sessions, nextSession, now, wsVars>>

----------------------------------------------------------------------------
(* Login: apps/users/views.py AuthViewSet.login and the lockout methods of  *)
(* apps/users/models.py.  Time is counted in quarter hours.  Every user is  *)
(* active (is_active), so authenticate() fails only on a wrong password.    *)

LockTicks == 2         \* lock_account(duration_minutes=30): two quarter hours
LockThreshold == 5     \* record_failed_login: failed_login_attempts >= 5

\* The email of a login request: a user's, one of no user, or none
Emails == {"t1", "x9", Absent}
\* The password of a login request: the user's, another one, or none
Passwords == {"right", "wrong", Absent}

\* User.is_account_locked
is_account_locked(acc) ==
    acc.account_locked_until # NULL /\ acc.account_locked_until > now

\* User.lock_account
lock_account(acc) == [acc EXCEPT !.account_locked_until = now + LockTicks]

\* Mutant of record_failed_login: the account is locked after the threshold
\* is exceeded, not when it is reached
record_failed_login_Late(acc) ==
    LET counted == [acc EXCEPT !.failed_login_attempts = @ + 1] IN
    IF counted.failed_login_attempts > LockThreshold
    THEN lock_account(counted) ELSE counted

\* User.record_failed_login
record_failed_login(acc) ==
    LET counted == [acc EXCEPT !.failed_login_attempts = @ + 1] IN
    IF counted.failed_login_attempts >= LockThreshold
    THEN lock_account(counted) ELSE counted

\* User.record_successful_login, and RefreshToken.for_user
record_successful_login(acc) ==
    [acc EXCEPT !.failed_login_attempts = 0, !.last_login = now, !.tokens = @ + 1]

\* Mutant of Login: the password is checked before the lock
Login_PasswordFirst(email, password) ==
    /\ IF email = Absent \/ password = Absent THEN
           resp' = 400 /\ UNCHANGED accounts
       ELSE IF email \notin Users THEN
           resp' = 401 /\ UNCHANGED accounts
       ELSE IF password = "right" THEN
           /\ accounts[email].tokens < MaxTokens
           /\ resp' = 200
           /\ accounts' = [accounts EXCEPT ![email] = record_successful_login(@)]
       ELSE IF is_account_locked(accounts[email]) THEN
           resp' = 403 /\ UNCHANGED accounts
       ELSE
           /\ resp' = 401
           /\ accounts' = [accounts EXCEPT ![email] = record_failed_login(@)]
    /\ UNCHANGED <<staff, reqs, dbVars, now, wsVars>>

\* POST /auth/login/ : AuthViewSet.login
Login(email, password) ==
    /\ IF email = Absent \/ password = Absent THEN
           resp' = 400 /\ UNCHANGED accounts
       ELSE IF email \notin Users THEN
           resp' = 401 /\ UNCHANGED accounts
       ELSE IF is_account_locked(accounts[email]) THEN
           resp' = 403 /\ UNCHANGED accounts
       ELSE IF password = "right" THEN
           /\ accounts[email].tokens < MaxTokens
           /\ resp' = 200
           /\ accounts' = [accounts EXCEPT ![email] = record_successful_login(@)]
       ELSE
           /\ resp' = 401
           /\ accounts' = [accounts EXCEPT ![email] = record_failed_login(@)]
    /\ UNCHANGED <<staff, reqs, dbVars, now, wsVars>>

\* SpecLogin: login requests while time passes, on the database of the relay
NextLogin ==
    \/ \E e \in Emails, pw \in Passwords : Login(e, pw)
    \/ Advance(MaxLoginTime)

----------------------------------------------------------------------------
(* The roster API on a database that starts with no class.  SpecTeachers   *)
(* runs the requests that touch TeacherAssignment, SpecEnrol those that    *)
(* touch Enrolment; the two tables do not depend on each other.            *)

InitRoster ==
    /\ classes = << >>
    /\ assignments = {}
    /\ enrolments = {}
    /\ sessions = << >>
    /\ nextSession = 1
    /\ submissions = {}
    /\ now = 0
    /\ resp = NoRequest
    /\ InitWs
    /\ InitExt

NextTeachers ==
    \/ \E u \in RosterActors, ctr \in Centres, ts \in TeacherIdLists \cup {<< >>} :
           CreateClass(u, ctr, ts, << >>)
    \/ \E u \in RosterActors, pk \in ClassIds, t \in UserRefs :
           \E b \in {0, pk} : AssignTeacher(u, pk, t, b)
    \/ \E u \in RosterActors, pk \in ClassIds, t \in UserRefs : RemoveTeacher(u, pk, t)

SpecTeachers == InitRoster /\ [][NextTeachers]_vars

NextEnrol ==
    \/ \E u \in RosterActors, ctr \in Centres, ss \in StudentIdLists \cup {<< >>} :
           CreateClass(u, ctr, << >>, ss)
    \/ \E u \in RosterActors, pk \in ClassIds, st \in UserRefs, b \in ClassRefs :
           EnrolStudent(u, pk, st, b)
    \/ \E u \in RosterActors, pk \in ClassIds, st \in UserRefs : RemoveStudent(u, pk, st)

SpecEnrol == InitRoster /\ [][NextEnrol]_vars

----------------------------------------------------------------------------
(* SpecSession: the session API and the cleanup task.  Class 1 (centre 1)   *)
(* is taught by t1 and t2, class 2 (centre 2) by t2; s1 attends class 1.    *)

InitSession ==
    /\ classes = (1 :> 1) @@ (2 :> 2)
    /\ assignments = {<<"t1", 1>>, <<"t2", 1>>, <<"t2", 2>>}
    /\ enrolments = {EnrolmentRow("s1", 1, TRUE)}
    /\ sessions = << >>
    /\ nextSession = 1
    /\ submissions = {}
    /\ now = 0
    /\ resp = NoRequest
    /\ InitWs
    /\ InitExt

\* The users who send the session requests: the teachers, a student of class
\* 1, the manager of centre 1 and a parent
SessionActors == {"t1", "t2", "s1", "m1", "p1"}

\* The update requests of SpecSession, <<body, partial>>: a PATCH of is_active
\* or of class_instance, a PUT with the required fields, and a PUT without
SessionBody(c, name, active) ==
    [class_instance |-> c, session_name |-> name, is_active |-> active]

UpdateRequests ==
    { <<SessionBody(NULL, Absent, "true"), TRUE>>,
      <<SessionBody(NULL, Absent, "false"), TRUE>>,
      <<SessionBody(2, Absent, Absent), TRUE>>,
      <<SessionBody(1, "lesson", Absent), FALSE>>,
      <<SessionBody(NULL, Absent, "true"), FALSE>> }

\* Sessions are created by t1 (for class 1, which t1 teaches); t2 is the other
\* teacher of class 1.  The update and delete requests come from student s1.
NextSession ==
    \/ \E u \in {"t1", "s1"}, c \in {1, 2, 0} : CreateSession(u, c, "lesson")
    \/ \E u \in SessionActors, pk \in SessionIds : EndSession(u, pk)
    \/ \E pk \in SessionIds, r \in UpdateRequests : UpdateSession("s1", pk, r[1], r[2])
    \/ \E pk \in SessionIds : DeleteSession("s1", pk)
    \/ CleanupOldSessions
    \/ Tick

SpecSession == InitSession /\ [][NextSession]_vars

----------------------------------------------------------------------------
(* SpecAccess: who gets into a session or a homework while the rosters and  *)
(* the sessions change.  Class 1 (centre 1) is taught by t1 and attended by *)
(* s1, class 2 (centre 2) by t2 and s2; t1 runs a session for class 1 and   *)
(* t2 one for class 2; s1 has a Submission row of homework 1 that is still  *)
(* PENDING (the default status of the model).                               *)

InitAccess ==
    /\ classes = (1 :> 1) @@ (2 :> 2)
    /\ assignments = {<<"t1", 1>>, <<"t2", 2>>}
    /\ enrolments = {EnrolmentRow("s1", 1, TRUE), EnrolmentRow("s2", 2, TRUE)}
    /\ sessions = (1 :> SessionRow(1, "t1", "lesson", 0, NULL, TRUE))
               @@ (2 :> SessionRow(2, "t2", "lesson", 0, NULL, TRUE))
    /\ nextSession = 3
    /\ submissions = {SubmissionRow(1, 1, "s1", "PENDING", "null", NULL)}
    /\ now = 0
    /\ resp = NoRequest
    /\ InitWs
    /\ InitExt

\* The users who send the requests of SpecAccess: one of each role, and the
\* scope without a valid token.  t1 and s1 belong to class 1 and not to class
\* 2; the roster requests concern them.
AccessActors == {"a1", "m1", "t1", "s1", "p1"}

\* The URLs of the connection attempts: session 1, session 2, no session
AccessUrls == {<<1>>, <<2>>, <<3>>}

NextAccess ==
    \/ \E c \in 1..MaxAccessConns, u \in AccessActors \cup {Anon}, url \in AccessUrls :
           Connect(c, u, url)
    \/ \E c \in 1..MaxAccessConns : Disconnect(c)
    \/ \E u \in AccessActors, pk \in SessionIds : JoinSession(u, pk)
    \/ \E u \in {"s1", "t1"}, pk \in HomeworkRefs, f \in {"ok", "toobig"} :
           Submit(u, pk, f)
    \/ \E u \in {"m1", "t1"}, pk \in DOMAIN classes : RemoveStudent(u, pk, "s1")
    \/ \E u \in {"a1", "t1"}, pk \in DOMAIN classes : EnrolStudent(u, pk, "s1", pk)
    \/ \E pk \in DOMAIN classes : RemoveTeacher("a1", pk, "t1")
    \/ \E u \in {"t1", "s1"}, pk \in SessionIds : EndSession(u, pk)

SpecAccess == InitAccess /\ [][NextAccess]_vars

----------------------------------------------------------------------------
(* Spec: the relay, over a database that does not change.  Class 1 (centre  *)
(* 1) is taught by t1 and attended by s1, class 2 (centre 2) by t2 and s2;  *)
(* each class has an active session.                                        *)

InitRelay ==
    /\ classes = (1 :> 1) @@ (2 :> 2)
    /\ assignments = {<<"t1", 1>>, <<"t2", 2>>}
    /\ enrolments = {EnrolmentRow("s1", 1, TRUE), EnrolmentRow("s2", 2, TRUE)}
    /\ sessions = (1 :> SessionRow(1, "t1", "lesson", 0, NULL, TRUE))
               @@ (2 :> SessionRow(2, "t2", "lesson", 0, NULL, TRUE))
    /\ nextSession = 3
    /\ submissions = {}
    /\ now = 0
    /\ resp = NoRequest
    /\ InitWs
    /\ InitExt

\* The connection attempts of the relay specification
RelayScopes ==
    { <<"t1", <<1>>>>, <<"s1", <<1>>>>, <<"s1", <<0, 1>>>>, <<"s2", <<2>>>> }

Next ==
    \/ \E c \in Conns, sc \in RelayScopes : Connect(c, sc[1], sc[2])
    \/ \E c \in Conns, f \in Frames : Receive(c, f)
    \/ \E c \in Conns : Deliver(c)
    \/ \E c \in Conns : Disconnect(c)

Spec == InitRelay /\ [][Next]_vars

----------------------------------------------------------------------------
(* Claims about the relay, checked under Spec *)

\* The session a connection was opened for
SessionOf(c) == ParseInt(conn[c].url)
RoomOf(c) == groups[room_group_name(conn[c].url)]

C3_SenderIdentity ==
    /\ \A d \in Conns : \A i \in 1..Len(chan[d]) :
          chan[d][i].type = "whiteboard_message" =>
              /\ chan[d][i].message["user_id"] = conn[chan[d][i].src].user
              /\ chan[d][i].message["user_name"] = get_full_name(conn[chan[d][i].src].user)
    /\ \A d \in Conns : \A i \in 1..Len(out[d]) :
          out[d][i].via = "whiteboard_message" =>
              /\ out[d][i].json["user_id"] = conn[out[d][i].src].user
              /\ out[d][i].json["user_name"] = get_full_name(conn[out[d][i].src].user)

\* C3 witness: a member was delivered the frame in which a client other than
\* t1 wrote user_id "t1" (the frame with timestamp "t0")
C3_Witness ==
    \E d \in Conns :
        /\ out[d] # << >>
        /\ out[d][1].via = "whiteboard_message"
        /\ out[d][1].src # d
        /\ out[d][1].json["timestamp"] = "t0"
        /\ conn[out[d][1].src].user # "t1"

\* The event a Receive step put on the channel of d
Relayed(d) == LastOf(chan'[d]).message

\* C4 as amended: the message relayed for a received JSON object has the
\* client's keys plus user_id, user_name and timestamp; every key the client
\* sent other than user_id and user_name has the client's value; timestamp is
\* null when the client sent none; the handler writes the message unchanged.
C4_VerbatimPlusTimestamp ==
    [][/\ \A c \in Conns, f \in Frames :
            (Receive(c, f) /\ f.object) =>
                \A d \in RoomOf(c) :
                    /\ DOMAIN Relayed(d) =
                           DOMAIN json_loads(f) \cup {"user_id", "user_name", "timestamp"}
                    /\ \A k \in DOMAIN json_loads(f) \ {"user_id", "user_name"} :
                           Relayed(d)[k] = json_loads(f)[k]
                    /\ "timestamp" \notin DOMAIN json_loads(f) =>
                           Relayed(d)["timestamp"] = JsonNull
       /\ \A d \in Conns :
            (Deliver(d) /\ Head(chan[d]).type = "whiteboard_message") =>
                out'[d][1].json = Head(chan[d]).message]_vars

\* C4 as claimed: no key other than user_id and user_name is added
C4_Original ==
    [][\A c \in Conns, f \in Frames :
          (Receive(c, f) /\ f.object) =>
              \A d \in RoomOf(c) :
                  /\ DOMAIN Relayed(d) = DOMAIN json_loads(f) \cup {"user_id", "user_name"}
                  /\ \A k \in DOMAIN json_loads(f) \ {"user_id", "user_name"} :
                         Relayed(d)[k] = json_loads(f)[k]]_vars

\* C4 witness: a member was delivered a message relayed from the frame that
\* has a key x and no timestamp
C4_Witness ==
    \E d \in Conns :
        /\ out[d] # << >>
        /\ out[d][1].via = "whiteboard_message"
        /\ out[d][1].src # d
        /\ "x" \in DOMAIN out[d][1].json
        /\ out[d][1].json["timestamp"] = JsonNull

----------------------------------------------------------------------------
(* Claims about the roster API *)

\* C6: no teacher has more than 3 TeacherAssignment rows, whatever sequence
\* of class creations, POST /classes/{id}/teachers/ and DELETE
\* /classes/{id}/teachers/{teacher_id}/ was served (SpecTeachers).
C6_MaxThreeClasses ==
    \A t \in Users : AssignmentCount(t) <= 3

\* C7: every Enrolment row links a student whose centre is the centre of the
\* class the row is saved against (SpecEnrol).
C7_SameCentre ==
    \A e \in enrolments : centre[e.student] = classes[e.class_instance]

----------------------------------------------------------------------------
(* Claims about the session API, checked under SpecSession *)

ActiveSessions(c) ==
    {i \in DOMAIN sessions : sessions[i].class_instance = c /\ sessions[i].is_active}

\* C9: each class has at most one WhiteboardSession with is_active = True,
\* whatever sequence of create, update, partial_update, end and delete
\* requests and cleanup runs was served.
C9_OneActivePerClass ==
    \A c \in DOMAIN classes : Cardinality(ActiveSessions(c)) <= 1

\* The requester is the teacher who created the session
IsCreator(u, pk) == role[u] = "TEACHER" /\ sessions[pk].teacher = u

\* C10 as amended: POST /whiteboard/sessions/{id}/end/ answers 404 when the
\* requester does not see the session, 403 when the requester sees it and is
\* not the teacher who created it, 400 when the creator asks for a session
\* already ended, and 200 otherwise; on 200 the session gets is_active = False
\* and ended_at = now and nothing else changes; on every error the Session
\* table is unchanged.
C10_EndByCreator ==
    [][\A u \in SessionActors, pk \in SessionIds :
          EndSession(u, pk) =>
              /\ (resp' = 404) <=> ~SessionVisible(u, pk)
              /\ (resp' = 403) <=> (SessionVisible(u, pk) /\ ~IsCreator(u, pk))
              /\ (resp' = 400) <=>
                     (SessionVisible(u, pk) /\ IsCreator(u, pk) /\ ~sessions[pk].is_active)
              /\ (resp' = 200) <=>
                     (SessionVisible(u, pk) /\ IsCreator(u, pk) /\ sessions[pk].is_active)
              /\ resp' = 200 =>
                     /\ DOMAIN sessions' = DOMAIN sessions
                     /\ ~sessions'[pk].is_active
                     /\ sessions'[pk].ended_at = now
                     /\ sessions'[pk].class_instance = sessions[pk].class_instance
                     /\ sessions'[pk].teacher = sessions[pk].teacher
                     /\ sessions'[pk].started_at = sessions[pk].started_at
                     /\ \A i \in DOMAIN sessions \ {pk} : sessions'[i] = sessions[i]
              /\ resp' # 200 => sessions' = sessions]_vars

\* C10 as claimed: for an existing session, the creator's request on an active
\* session ends it, any other user's request returns 403, the creator's
\* request on an ended session returns 400, and the errors change nothing
C10_Original ==
    [][\A u \in SessionActors, pk \in SessionIds :
          (EndSession(u, pk) /\ pk \in DOMAIN sessions) =>
              /\ (IsCreator(u, pk) /\ sessions[pk].is_active) =>
                     (~sessions'[pk].is_active /\ sessions'[pk].ended_at = now)
              /\ ~IsCreator(u, pk) => resp' = 403
              /\ (IsCreator(u, pk) /\ ~sessions[pk].is_active) => resp' = 400
              /\ resp' \in {400, 403} => sessions' = sessions]_vars

\* C10 witness: a session created today was ended today by the end request
C10_Witness ==
    \E pk \in DOMAIN sessions :
        /\ resp = 200
        /\ ~sessions[pk].is_active
        /\ sessions[pk].ended_at = now
        /\ sessions[pk].started_at = now

----------------------------------------------------------------------------
(* Claims about access, checked under SpecAccess *)

\* The conditions of an accepted connection, on the tables at connect time
Granted(u, url) ==
    /\ u \in Users
    /\ ParseInt(url) \in DOMAIN sessions
    /\ sessions[ParseInt(url)].is_active
    /\ LET cls == sessions[ParseInt(url)].class_instance IN
           \/ role[u] = "TEACHER" /\ <<u, cls>> \in assignments
           \/ role[u] = "STUDENT" /\ EnrolmentRow(u, cls, TRUE) \in enrolments
           \/ role[u] \in {"CENTRE_MANAGER", "SUPER_ADMIN"}

\* The close code of a refused connection
CloseCode(u, url) ==
    IF u \notin Users THEN 1008
    ELSE IF ParseInt(url) \notin DOMAIN sessions THEN 3000
    ELSE IF ~sessions[ParseInt(url)].is_active THEN 3001
    ELSE 3002

\* C1: a connect is accepted and its channel added to the room of its URL
\* exactly when, at connect time, the user is authenticated, the session
\* exists and is active, and the user is a teacher assigned to the session's
\* class, a student with an active enrolment in it, or a centre manager or
\* super admin; otherwise it is closed with 1008, 3000, 3001 or 3002 and no
\* group changes; a refused connection is in no room.  (A connection leaves
\* the state idle in the step that runs connect().)
C1_ConnectGate ==
    [][/\ \A c \in Conns :
              (conn[c].state = "idle" /\ conn'[c].state # "idle") =>
                  IF Granted(conn'[c].user, conn'[c].url)
                  THEN /\ conn'[c].state = "open"
                       /\ groups' = [groups EXCEPT
                              ![room_group_name(conn'[c].url)] = @ \cup {c}]
                  ELSE /\ conn'[c].state = "rejected"
                       /\ conn'[c].code = CloseCode(conn'[c].user, conn'[c].url)
                       /\ groups' = groups
       /\ \A c \in Conns, g \in RoomNames :
              c \in groups'[g] =>
                  conn'[c].state = "open" /\ g = room_group_name(conn'[c].url)]_vars

\* C1 witness: student s1, enrolled in class 1, is connected to session 1 and
\* in its room
C1_Witness ==
    \E c \in Conns :
        /\ conn[c].state = "open"
        /\ conn[c].user = "s1"
        /\ c \in groups[room_group_name(<<1>>)]
        /\ EnrolmentRow("s1", 1, TRUE) \in enrolments

\* The student's enrolment in the class was deactivated
Removed(st, cls) ==
    /\ EnrolmentRow(st, cls, FALSE) \in enrolments
    /\ EnrolmentRow(st, cls, TRUE) \notin enrolments

\* C8 as amended: while a student's enrolment in a class is inactive, the
\* student's REST join of a session of the class and submit of a homework of
\* the class return 404 and save nothing, and the student's WebSocket connect
\* to a session of the class is closed with 3002 (3001 when the session has
\* ended) without joining the room.
C8_RefusedWhileInactive ==
    [][\A st \in {u \in Users : role[u] = "STUDENT"} :
          /\ \A pk \in DOMAIN sessions :
                 (Removed(st, sessions[pk].class_instance) /\ JoinSession(st, pk))
                 => resp' = 404
          /\ \A pk \in DOMAIN homeworks, f \in Files :
                 (Removed(st, homeworks[pk].class_instance) /\ Submit(st, pk, f))
                 => (resp' = 404 /\ submissions' = submissions)
          /\ \A c \in Conns :
                 (/\ conn[c].state = "idle" /\ conn'[c].state # "idle"
                  /\ conn'[c].user = st
                  /\ ParseInt(conn'[c].url) \in DOMAIN sessions
                  /\ Removed(st, sessions[ParseInt(conn'[c].url)].class_instance))
                 => /\ conn'[c].state = "rejected"
                    /\ conn'[c].code =
                           IF sessions[ParseInt(conn'[c].url)].is_active
                           THEN 3002 ELSE 3001
                    /\ groups' = groups]_vars

\* C8 as claimed: while the enrolment is inactive, the REST join of an active
\* session and the homework submit return 403, and the WebSocket connect to an
\* active session is closed with 3002
C8_Original ==
    [][\A st \in {u \in Users : role[u] = "STUDENT"} :
          /\ \A pk \in DOMAIN sessions :
                 (/\ sessions[pk].is_active
                  /\ Removed(st, sessions[pk].class_instance)
                  /\ JoinSession(st, pk))
                 => resp' = 403
          /\ \A pk \in DOMAIN homeworks, f \in Files :
                 (Removed(st, homeworks[pk].class_instance) /\ Submit(st, pk, f))
                 => resp' = 403
          /\ \A c \in Conns :
                 (/\ conn[c].state = "idle" /\ conn'[c].state # "idle"
                  /\ conn'[c].user = st
                  /\ ParseInt(conn'[c].url) \in DOMAIN sessions
                  /\ sessions[ParseInt(conn'[c].url)].is_active
                  /\ Removed(st, sessions[ParseInt(conn'[c].url)].class_instance))
                 => (conn'[c].state = "rejected" /\ conn'[c].code = 3002)]_vars

\* C8 witness: after s1 was removed from class 1, s1's connect to the active
\* session of class 1 was closed with 3002
C8_Witness ==
    \E c \in Conns :
        /\ conn[c].user = "s1"
        /\ conn[c].state = "rejected"
        /\ conn[c].code = 3002
        /\ SessionOf(c) \in DOMAIN sessions
        /\ sessions[SessionOf(c)].is_active
        /\ Removed("s1", sessions[SessionOf(c)].class_instance)

\* C11: no request made by a student changes a session's is_active,
\* class_instance or session_name, deletes a session or creates one: a create,
\* PUT, PATCH or DELETE on /whiteboard/sessions/ by a user with role STUDENT
\* leaves the WhiteboardSession table as it was (SpecSession).
C11_StudentsOnlyJoin ==
    [][\A st \in {u \in Users : role[u] = "STUDENT"} :
          (\/ \E c \in ClassRefs : CreateSession(st, c, "lesson")
           \/ \E pk \in SessionIds, r \in UpdateRequests :
                  UpdateSession(st, pk, r[1], r[2])
           \/ \E pk \in SessionIds : DeleteSession(st, pk))
          => sessions' = sessions]_vars

\* C12: for every user who is not a super admin, every class, homework and
\* whiteboard session the list/retrieve endpoints return to the user, and
\* every session whose room a connect of the user is admitted to, belongs to a
\* class of the user's own centre (SpecAccess).
C12_CentreIsolation ==
    [][/\ \A u \in {v \in Users : role[v] # "SUPER_ADMIN"} :
              /\ \A c \in DOMAIN classes :
                     ClassVisible(u, c) => classes[c] = centre[u]
              /\ \A pk \in DOMAIN sessions :
                     SessionVisible(u, pk) =>
                         classes[sessions[pk].class_instance] = centre[u]
              /\ \A pk \in DOMAIN homeworks :
                     HomeworkVisible(u, pk) =>
                         classes[homeworks[pk].class_instance] = centre[u]
       /\ \A c \in Conns :
              (/\ conn[c].state = "idle"
               /\ conn'[c].state = "open"
               /\ role[conn'[c].user] # "SUPER_ADMIN")
              => classes[sessions[ParseInt(conn'[c].url)].class_instance]
                     = centre[conn'[c].user]]_vars

----------------------------------------------------------------------------
(* Claims about login, checked under SpecLogin *)

SpecLogin == InitRelay /\ [][NextLogin]_vars

\* The account is locked at the time now
LockedAt(acc, t) == acc.account_locked_until # NULL /\ acc.account_locked_until > t

\* C13: a failed password check on an unlocked existing account adds one to
\* failed_login_attempts; the attempt that brings the counter to 5 (or beyond)
\* sets account_locked_until to 30 minutes from now and an attempt below 5
\* leaves it alone; a successful login resets the counter to 0; an account is
\* never locked with fewer than 5 failures counted.
C13_LockAfterFive ==
    [][\A u \in Users :
          /\ (~LockedAt(accounts[u], now) /\ Login(u, "wrong")) =>
                 /\ resp' = 401
                 /\ accounts'[u].failed_login_attempts =
                        accounts[u].failed_login_attempts + 1
                 /\ accounts'[u].account_locked_until =
                        IF accounts[u].failed_login_attempts + 1 >= 5
                        THEN now + LockTicks
                        ELSE accounts[u].account_locked_until
                 /\ accounts'[u].tokens = accounts[u].tokens
          /\ (~LockedAt(accounts[u], now) /\ Login(u, "right")) =>
                 /\ resp' = 200
                 /\ accounts'[u].failed_login_attempts = 0
                 /\ accounts'[u].account_locked_until = accounts[u].account_locked_until
          /\ LockedAt(accounts'[u], now') => accounts'[u].failed_login_attempts >= 5]_vars

\* C13 witness: the fifth failure in a row, after an earlier successful
\* login, has just locked the account of t1 for 30 minutes
C13_Witness ==
    /\ resp = 401
    /\ accounts["t1"].failed_login_attempts = 5
    /\ accounts["t1"].account_locked_until = now + LockTicks
    /\ accounts["t1"].last_login # NULL

\* C14: while an account is locked, a login request for it with a password,
\* right or wrong, returns 403, issues no token and leaves
\* failed_login_attempts, account_locked_until and last_login unchanged.
C14_LockedRefused ==
    [][\A u \in Users, pw \in {"right", "wrong"} :
          (LockedAt(accounts[u], now) /\ Login(u, pw)) =>
              (resp' = 403 /\ accounts' = accounts)]_vars

\* C14 witness: a login for the locked account of t1 was answered 403, a
\* quarter of an hour after the lock
C14_Witness ==
    /\ resp = 403
    /\ LockedAt(accounts["t1"], now)
    /\ accounts["t1"].account_locked_until = now + 1

----------------------------------------------------------------------------
(* SpecHomework: submit and grade requests while the rosters change.  The   *)
(* s1 is enrolled in class 1 and s2 in classes 1 and 2; s1 has a PENDING    *)
(* Submission row of homework 1 and s2 one of homework 2, and s2 has no row *)
(* of homework 1.                                                           *)

InitHomework ==
    /\ classes = (1 :> 1) @@ (2 :> 2)
    /\ assignments = {<<"t1", 1>>, <<"t2", 2>>}
    /\ enrolments = {EnrolmentRow("s1", 1, TRUE), EnrolmentRow("s2", 2, TRUE),
                     EnrolmentRow("s2", 1, TRUE)}
    /\ sessions = << >>
    /\ nextSession = 1
    /\ submissions = {SubmissionRow(1, 1, "s1", "PENDING", "null", NULL),
                      SubmissionRow(2, 2, "s2", "PENDING", "null", NULL)}
    /\ now = 0
    /\ resp = NoRequest
    /\ InitWs
    /\ InitExt

NextHomework ==
    \/ \E u \in {"s1", "s2", "t1"}, pk \in HomeworkRefs, f \in Files : Submit(u, pk, f)
    \/ \E u \in {"t1", "t2", "s1"}, pk \in DOMAIN homeworks, sid \in SubmissionRefs,
          body \in GradeBodies : Grade(u, pk, sid, body)
    \/ RemoveStudent("m1", 1, "s1")
    \/ RemoveTeacher("a1", 1, "t1")

SpecHomework == InitHomework /\ [][NextHomework]_vars

\* The Submission rows of a (homework, student) pair
SubmissionsOf(hw, st) == {r \in submissions : r.homework = hw /\ r.student = st}

\* C15: a submit by a student with an active enrolment in the homework's
\* class, with no Submission of the homework yet and a valid file, returns 201
\* and adds exactly one Submission, of the homework of the URL, of the
\* requester, with status SUBMITTED.
C15_SubmitCreates ==
    [][\A st \in {u \in Users : role[u] = "STUDENT"}, pk \in DOMAIN homeworks :
          (/\ EnrolmentRow(st, homeworks[pk].class_instance, TRUE) \in enrolments
           /\ SubmissionsOf(pk, st) = {}
           /\ Submit(st, pk, "ok"))
          => /\ resp' = 201
             /\ \E r \in submissions' :
                    /\ submissions' = submissions \cup {r}
                    /\ r \notin submissions
                    /\ r.homework = pk
                    /\ r.student = st
                    /\ r.status = "SUBMITTED"]_vars

\* The students who have a Submission of homework pk that is SUBMITTED or GRADED
AlreadySubmitted(st, pk) ==
    \E r \in SubmissionsOf(pk, st) : r.status \in {"SUBMITTED", "GRADED"}

\* C16 as amended: a submit by a student whose Submission of the homework is
\* SUBMITTED or GRADED leaves every Submission unchanged, and returns 400
\* when the student has an active enrolment in the homework's class and 404
\* when not; a Submission whose status becomes SUBMITTED was PENDING and is
\* the same row with a new file, status and submitted_at.
C16_NoResubmit ==
    [][/\ \A st \in {u \in Users : role[u] = "STUDENT"}, pk \in DOMAIN homeworks,
             f \in Files :
              (AlreadySubmitted(st, pk) /\ Submit(st, pk, f))
              => /\ submissions' = submissions
                 /\ resp' = IF HasActiveEnrolment(st, homeworks[pk].class_instance)
                            THEN 400 ELSE 404
       /\ \A r \in submissions, r2 \in submissions' :
              (r2.id = r.id /\ r2 # r /\ r2.status = "SUBMITTED")
              => /\ r.status = "PENDING"
                 /\ r2 = [r EXCEPT !.file = r2.file, !.status = "SUBMITTED",
                                   !.submitted_at = now]]_vars

\* C16 as claimed: the submit of a homework already SUBMITTED or GRADED
\* returns 400 and leaves the Submission unchanged
C16_Original ==
    [][\A st \in {u \in Users : role[u] = "STUDENT"}, pk \in DOMAIN homeworks,
          f \in Files :
           (AlreadySubmitted(st, pk) /\ Submit(st, pk, f))
           => (resp' = 400 /\ submissions' = submissions)]_vars

\* A second submit has been refused: s1's Submission of homework 1 is
\* SUBMITTED with the file of the first submit, and the last response is 400
C16_Witness ==
    /\ resp = 400
    /\ \E r \in SubmissionsOf(1, "s1") : r.status = "SUBMITTED" /\ r.file = "ok"
    /\ HasActiveEnrolment("s1", 1)

\* C17: a step that makes a Submission GRADED, or changes a GRADED one, is a
\* grade request, answered 200, of a TEACHER assigned to the class of the
\* Submission's homework, naming that homework and that Submission; afterwards
\* graded_by is that teacher, graded_at is the time of the request, and mark
\* is null or within 0..100.
C17_GradedByAssignedTeacher ==
    [][\A r \in submissions, r2 \in submissions' :
          (r2.id = r.id /\ r2 # r /\ r2.status = "GRADED")
          => \E u \in {t \in Users : role[t] = "TEACHER"} :
                 /\ IsAssigned(u, homeworks[r.homework].class_instance)
                 /\ \E body \in GradeBodies : Grade(u, r.homework, r.id, body)
                 /\ resp' = 200
                 /\ r2.homework = r.homework /\ r2.student = r.student
                 /\ r2.graded_by = u
                 /\ r2.graded_at = now /\ r2.graded_at # NULL
                 /\ (r2.mark = NULL \/ (r2.mark >= 0 /\ r2.mark <= 100))]_vars

\* t1 has graded s1's Submission of homework 1 with mark 100
C17_Witness ==
    \E r \in SubmissionsOf(1, "s1") :
        r.status = "GRADED" /\ r.graded_by = "t1" /\ r.mark = 100 /\ r.graded_at # NULL

----------------------------------------------------------------------------
(* Centres: PUT/PATCH /centres/{pk}/ with centre_manager_id.  The users'    *)
(* role and centre and the CentreManagerAssignment rows are in staff.       *)

\* User.date_joined, the key of User.Meta.ordering (-date_joined)
date_joined ==
    [u \in Users |->
        CASE u = "a1" -> 1
          [] u = "m1" -> 2
          [] u = "t1" -> 3
          [] u = "t2" -> 4
          [] u = "s1" -> 5
          [] u = "s2" -> 6
          [] OTHER -> 7]

\* The centre ids and the centre_manager_id values of the requests: every
\* user, an id of no user, and Absent for a body without the field
CentreRefs == Centres \cup {3}
ManagerIds == Users \cup {"x9", Absent}

\* User.objects.filter(centre=instance, role='CENTRE_MANAGER').first(), Anon
\* when there is none
old_manager_of(st, pk) ==
    LET found == {u \in Users : st.centre[u] = pk /\ st.role[u] = "CENTRE_MANAGER"} IN
    IF found = {} THEN Anon
    ELSE CHOOSE u \in found : \A v \in found : date_joined[v] <= date_joined[u]

\* CentreUpdateSerializer.validate_centre_manager_id
validate_centre_manager_id(st, pk, value) ==
    IF value = Absent THEN TRUE
    ELSE IF value \notin Users THEN FALSE
    ELSE IF st.role[value] = "CENTRE_MANAGER" /\ st.centre[value] # NoCentre
            /\ st.centre[value] # pk THEN FALSE
    ELSE st.role[value] # "SUPER_ADMIN"

\* CentreUpdateSerializer.update, the branch of a centre_manager_id that is
\* not None: the old manager loses the assignment to this centre and, left
\* without assignments, role and centre; the new manager gets the role, the
\* assignment and, when without a centre, this centre
change_manager(st, pk, id) ==
    LET old == old_manager_of(st, pk)
        changing == old # Anon /\ old # id
        kept == IF changing THEN st.manager_assignments \ {<<old, pk>>}
                ELSE st.manager_assignments
        demote == changing /\ ~\E a \in kept : a[1] = old
        role1 == IF demote THEN [st.role EXCEPT ![old] = "TEACHER"] ELSE st.role
        centre1 == IF demote THEN [st.centre EXCEPT ![old] = NoCentre] ELSE st.centre
    IN  [role |-> [role1 EXCEPT ![id] = "CENTRE_MANAGER"],
         centre |-> IF centre1[id] = NoCentre THEN [centre1 EXCEPT ![id] = pk]
                    ELSE centre1,
         manager_assignments |-> kept \cup {<<id, pk>>}]

\* PUT /centres/{pk}/ and PATCH /centres/{pk}/ : CentreViewSet.update
UpdateCentre(u, pk, id) ==
    /\ IF staff.role[u] # "SUPER_ADMIN" THEN
           resp' = 403 /\ UNCHANGED staff
       ELSE IF pk \notin Centres THEN
           resp' = 404 /\ UNCHANGED staff
       ELSE IF ~validate_centre_manager_id(staff, pk, id) THEN
           resp' = 400 /\ UNCHANGED staff
       ELSE IF id = Absent THEN
           resp' = 200 /\ UNCHANGED staff
       ELSE
           resp' = 200 /\ staff' = change_manager(staff, pk, id)
    /\ UNCHANGED <<accounts, reqs, dbVars, now, wsVars>>

NextCentre ==
    \E u \in {"a1", "m1"}, pk \in CentreRefs, id \in ManagerIds : UpdateCentre(u, pk, id)

SpecCentre == InitRelay /\ [][NextCentre]_vars

\* C18: an update of a centre by the super admin that succeeds and names as
\* centre_manager_id a user u other than the centre's manager leaves u with
\* role CENTRE_MANAGER and this centre, and the previous manager, when there
\* was one, with role TEACHER and no centre.
C18_ManagerChanged ==
    [][\A pk \in Centres, u \in Users :
          (/\ u # old_manager_of(staff, pk)
           /\ UpdateCentre("a1", pk, u)
           /\ resp' = 200)
          => /\ staff'.role[u] = "CENTRE_MANAGER"
             /\ staff'.centre[u] = pk
             /\ old_manager_of(staff, pk) # Anon =>
                    /\ staff'.role[old_manager_of(staff, pk)] = "TEACHER"
                    /\ staff'.centre[old_manager_of(staff, pk)] = NoCentre]_vars

----------------------------------------------------------------------------
(* Concurrent submit requests.  HomeworkViewSet.submit runs outside any     *)
(* transaction: it reads the student's Submission of the homework, and      *)
(* saves later; requests of other workers may run in between.               *)

MaxRequests == 2

RequestIds == 1..MaxRequests

\* A submit request that passed the checks: its user, homework, validated
\* file, the Submission it read (existing_submission, NoRow for None), its
\* position (save: about to save; done) and its response
NoRow == [id |-> NULL]

SubmitRequest(u, pk, file, existing) ==
    [user |-> u, homework |-> pk, file |-> file, existing |-> existing,
     pc |-> "save", response |-> NoRequest]

\* The first part of submit, up to serializer.is_valid: the request is
\* refused, or goes on with the Submission it read
SubmitBegin(q, u, pk, file) ==
    LET existing == {r \in submissions : r.homework = pk /\ r.student = u} IN
    /\ q \in RequestIds /\ q \notin DOMAIN reqs
    /\ \A p \in RequestIds : p < q => p \in DOMAIN reqs
    /\ IF role[u] # "STUDENT" THEN
           resp' = 403 /\ UNCHANGED reqs
       ELSE IF ~HomeworkVisible(u, pk) THEN
           resp' = 404 /\ UNCHANGED reqs
       ELSE IF ~HasActiveEnrolment(u, homeworks[pk].class_instance) THEN
           resp' = 403 /\ UNCHANGED reqs
       ELSE IF \E r \in existing : r.status \in {"SUBMITTED", "GRADED"} THEN
           resp' = 400 /\ UNCHANGED reqs
       ELSE IF ~FileValid(file) THEN
           resp' = 400 /\ UNCHANGED reqs
       ELSE
           /\ UNCHANGED resp
           /\ reqs' = reqs @@ (q :> SubmitRequest(u, pk, file,
                          IF existing = {} THEN NoRow ELSE CHOOSE r \in existing : TRUE))
    /\ UNCHANGED <<accounts, staff, dbVars, now, wsVars>>

\* The second part of submit.  existing_submission.save() writes every field
\* of the instance read before to the row of its id; serializer.save() of a
\* new Submission has no homework and fails
SubmitSave(q) ==
    /\ q \in DOMAIN reqs /\ reqs[q].pc = "save"
    /\ IF reqs[q].existing # NoRow THEN
           LET saved == [reqs[q].existing EXCEPT
                            !.file = IF reqs[q].file = Absent THEN "null"
                                     ELSE reqs[q].file,
                            !.status = "SUBMITTED",
                            !.submitted_at = now] IN
           /\ submissions' = {r \in submissions : r.id # saved.id} \cup {saved}
           /\ resp' = 200
       ELSE
           resp' = 500 /\ UNCHANGED submissions
    /\ reqs' = [reqs EXCEPT ![q].pc = "done", ![q].response = resp']
    /\ UNCHANGED <<accounts, staff, classes, assignments, enrolments, sessions,
                   nextSession, now, wsVars>>

NextConcurrent ==
    \/ \E q \in RequestIds, u \in {"s1", "s2", "t1"}, pk \in DOMAIN homeworks,
          f \in {"ok", "toobig", Absent} : SubmitBegin(q, u, pk, f)
    \/ \E q \in RequestIds : SubmitSave(q)
    \/ \E u \in {"t1", "s1"}, pk \in DOMAIN homeworks, sid \in {1, 2} :
           Grade(u, pk, sid, GradeBody(TRUE, 100, "good"))
    \/ RemoveStudent("m1", 1, "s1")
    \/ Advance(MaxTime)

SpecConcurrent == InitHomework /\ [][NextConcurrent]_vars

\* unique_together (homework, student): no two Submission rows of a pair
AtMostOneSubmission ==
    \A r1, r2 \in submissions :
        (r1.homework = r2.homework /\ r1.student = r2.student) => r1 = r2

\* C19: no (homework, student) pair has two Submission rows, and when two
\* submit requests of a student for a homework, both started while the
\* student had no Submission of it, have both finished, the pair has
\* exactly one Submission row.
C19_OneRowAfterConcurrent ==
    /\ AtMostOneSubmission
    /\ \A q1, q2 \in DOMAIN reqs :
           (/\ q1 # q2
            /\ reqs[q1].user = reqs[q2].user
            /\ reqs[q1].homework = reqs[q2].homework
            /\ reqs[q1].existing = NoRow /\ reqs[q2].existing = NoRow
            /\ reqs[q1].pc = "done" /\ reqs[q2].pc = "done")
           => Cardinality(SubmissionsOf(reqs[q1].homework, reqs[q1].user)) = 1

----------------------------------------------------------------------------
(* SpecFifo: several frames on the connections of one room.  The n-th frame *)
(* received by the server carries x = n, and out keeps every frame written. *)

MaxFifoFrames == 2

\* Every event of a run: one user_joined and one user_left per connection,
\* and the frames received
FifoKeep == 2 * MaxConns + MaxFifoFrames

FifoFrame(n) == [object |-> TRUE, pairs |-> << <<"type", "draw">>, <<"x", n>> >>]

NotAnObject == [object |-> FALSE, pairs |-> << >>]

\* The teacher opens the first connection of room 1, the student the others
FifoUser(c) == IF c = 1 THEN "t1" ELSE "s1"

NextFifo ==
    \/ \E c \in Conns : Connect(c, FifoUser(c), <<1>>)
    \/ \E c \in Conns, f \in {FifoFrame(nrecv + 1), NotAnObject} :
           ReceiveUpTo(c, f, MaxFifoFrames)
    \/ \E c \in Conns : DeliverKeeping(c, FifoKeep)
    \/ \E c \in Conns : Disconnect(c)

SpecFifo == InitRelay /\ [][NextFifo]_vars

\* The frame written for an event, as recorded in out
WrittenFrame(event) ==
    [via |-> event.type, src |-> event.src, json |-> HandlerFrame(event)]

\* The frames written to the socket of d followed by the frames of the events
\* waiting on the channel of d
Stream(o, ch, d) ==
    o[d] \o [i \in 1..Len(ch[d]) |-> WrittenFrame(ch[d][i])]

\* The whiteboard messages of one sender appear in q in the order of their x,
\* each once
InSendOrder(q) ==
    \A i, j \in 1..Len(q) :
        (/\ i < j
         /\ q[i].via = "whiteboard_message" /\ q[j].via = "whiteboard_message"
         /\ q[i].src = q[j].src)
        => q[i].json["x"] < q[j].json["x"]

\* C20: for a connection d that stays open, the frames written and waiting
\* only grow at the end, by one frame at a time (nothing is dropped, repeated
\* or moved); a JSON object received from a connection c is added at the end
\* for every member d of c's room; and the whiteboard messages of one sender
\* reach d in the order the sender's frames were received.
C20_PerSenderFifo ==
    [][\A d \in Conns :
          (conn[d].state = "open" /\ conn'[d].state = "open") =>
              /\ \/ Stream(out', chan', d) = Stream(out, chan, d)
                 \/ /\ Len(Stream(out', chan', d)) = Len(Stream(out, chan, d)) + 1
                    /\ SubSeq(Stream(out', chan', d), 1, Len(Stream(out, chan, d)))
                           = Stream(out, chan, d)
              /\ \A c \in Conns :
                     (/\ conn[c].state = "open" /\ d \in RoomOf(c)
                      /\ ReceiveUpTo(c, FifoFrame(nrecv + 1), MaxFifoFrames))
                     => /\ Len(Stream(out', chan', d)) = Len(Stream(out, chan, d)) + 1
                        /\ LastOf(Stream(out', chan', d)) =
                               [via |-> "whiteboard_message", src |-> c,
                                json |-> StampUser(json_loads(FifoFrame(nrecv + 1)),
                                                   conn[c].user)]
              /\ InSendOrder(Stream(out', chan', d))]_vars

\* Two frames of one connection have been written, in the order sent, to the
\* socket of another connection
C20_Witness ==
    \E d \in Conns : \E i, j \in 1..Len(out[d]) :
        /\ i < j
        /\ out[d][i].via = "whiteboard_message" /\ out[d][j].via = "whiteboard_message"
        /\ out[d][i].src = out[d][j].src /\ out[d][i].src # d
        /\ out[d][i].json["x"] = 1 /\ out[d][j].json["x"] = 2

====
